---------------------------- MODULE Spec2Model ----------------------------
(***************************************************************************)
(* A model of prepare.py, the data preparation script of the               *)
(* cosmoflow-benchmark: it discovers HDF5 files, selects this task's share *)
(* of them, and has a pool of worker processes split every volume into     *)
(* sub-cubes, each written to a TFRecord file of its own.                  *)
(*                                                                         *)
(* Strings are sequences of one-character strings, so that the string      *)
(* operations of the script (endswith, basename, replace, '%03i' % i,      *)
(* os.path.join, sorted) are computed character by character.              *)
(***************************************************************************)
EXTENDS Integers, Sequences, FiniteSets, Bags, TLC

VARIABLES
    args,         \* the namespace parse_args returns
    tree,         \* the files below the input directory: [dir, name]
    edge,         \* the edge length E of the volume stored in every file
    corrupt,      \* the paths h5py cannot read
    mainpc,       \* main's position
    exit_code,    \* the process's exit status, -1 while it runs
    error,        \* the exception that ended main, "" if none
    dir_created,  \* whether os.makedirs has created the output directory
    found,        \* what find_files returned
    input_files,  \* this task's chunk of found
    taskq,        \* the pool's queue of batches not yet taken by a worker
    number_left,  \* MapResult._number_left
    map_success,  \* MapResult._success
    map_event,    \* MapResult._event
    wpc,          \* every worker's position
    wbatch,       \* the batch a worker holds
    wpos,         \* the position in its batch of the file a worker processes
    gen,          \* the state of a worker's split_universe generator
    widx,         \* enumerate's counter in a worker's process_file
    wres,         \* the result a worker hands back for its batch
    map_value,    \* MapResult._value: the first exception, "" if none
    calls,        \* the bag of process_file invocations made so far
    written,      \* the records written so far
    logged        \* whether 'All done!' has been logged

vars == <<args, tree, edge, corrupt, mainpc, exit_code, error, dir_created,
          found, input_files, taskq, number_left, map_success, map_event,
          wpc, wbatch, wpos, gen, widx, wres, map_value, calls, written,
          logged>>

---------------------------------------------------------------------------
(* Bounds of the model.                                                    *)

\* Spec: the files of the tree and the worker processes.
MaxFiles == 3
MaxWorkers == 2
\* SpecSplit: the edge length and the sample size.
MaxFileEdge == 5
MaxSampleSize == 3
\* SpecName: the tokens of a file name, the edge length and sample size.
MaxTokens == 3
MaxNameEdge == 2
\* SpecTasks: the files of the tree and the number of tasks.
MaxListLen == 6
MaxTasks == 4

---------------------------------------------------------------------------
(* Characters and strings.                                                 *)

\* The characters of the model in the order of their code points, which is
\* the order sorted() compares them in.
CodePoints == <<".", "/", "0", "1", "2", "3", "4", "5", "6", "7", "8", "9",
                "_", "a", "b", "c", "d", "e", "f", "h", "i", "o", "r", "t",
                "x", "y">>

Ord(c) == CHOOSE n \in 1..Len(CodePoints) : CodePoints[n] = c

\* s < t as Python compares two str.
RECURSIVE StrLess(_, _)
StrLess(s, t) ==
    IF t = <<>> THEN FALSE
    ELSE IF s = <<>> THEN TRUE
    ELSE IF Head(s) # Head(t) THEN Ord(Head(s)) < Ord(Head(t))
    ELSE StrLess(Tail(s), Tail(t))

Min(a, b) == IF a < b THEN a ELSE b
Max(a, b) == IF a > b THEN a ELSE b

StartsWith(s, p) == Len(p) <= Len(s) /\ SubSeq(s, 1, Len(p)) = p

\* str.endswith
EndsWith(s, suf) ==
    Len(suf) <= Len(s) /\ SubSeq(s, Len(s) - Len(suf) + 1, Len(s)) = suf

\* str.replace(old, new), old not empty: every occurrence, left to right,
\* not overlapping.
RECURSIVE Replace(_, _, _)
Replace(s, old, new) ==
    IF s = <<>> THEN <<>>
    ELSE IF StartsWith(s, old)
         THEN new \o Replace(SubSeq(s, Len(old) + 1, Len(s)), old, new)
         ELSE <<Head(s)>> \o Replace(Tail(s), old, new)

\* The position of the last "/" of p, 0 if it has none.
RECURSIVE LastSlash(_, _)
LastSlash(p, n) ==
    IF n = 0 THEN 0 ELSE IF p[n] = "/" THEN n ELSE LastSlash(p, n - 1)

\* os.path.basename
Basename(p) == SubSeq(p, LastSlash(p, Len(p)) + 1, Len(p))

\* os.path.join(a, b) of two components
PathJoin(a, b) ==
    IF StartsWith(b, <<"/">>) THEN b
    ELSE IF a = <<>> \/ EndsWith(a, <<"/">>) THEN a \o b
    ELSE a \o <<"/">> \o b

Digit(d) == CodePoints[d + 3]

\* str(i) of i >= 0
RECURSIVE Decimal(_)
Decimal(i) ==
    IF i < 10 THEN <<Digit(i)>> ELSE Decimal(i \div 10) \o <<Digit(i % 10)>>

RECURSIVE Zeros(_)
Zeros(n) == IF n <= 0 THEN <<>> ELSE <<"0">> \o Zeros(n - 1)

\* '%03i' % i of i >= 0: the decimal digits, zero-padded to a width of 3
Fmt03i(i) == Zeros(3 - Len(Decimal(i))) \o Decimal(i)

Hdf5 == <<"h", "d", "f", "5">>
DotHdf5 == <<".">> \o Hdf5
DotTfrecord == <<".", "t", "f", "r", "e", "c", "o", "r", "d">>

InputDir == <<"i">>
OutputDir == <<"o">>

\* Python's a // b
FloorDiv(a, b) == IF b > 0 THEN a \div b ELSE (0 - a) \div (0 - b)

---------------------------------------------------------------------------
(* find_files.                                                             *)

\* The directory os.walk reports for the sub-directory d of input_dir.
WalkDir(input_dir, d) == IF d = <<>> THEN input_dir ELSE PathJoin(input_dir, d)

FilePath(input_dir, f) == PathJoin(WalkDir(input_dir, f.dir), f.name)

\* The least string of a non-empty set of strings.
LeastStr(S) == CHOOSE s \in S : \A t \in S \ {s} : StrLess(s, t)

\* sorted(files)
RECURSIVE Sorted(_)
Sorted(S) ==
    IF S = {} THEN <<>> ELSE <<LeastStr(S)>> \o Sorted(S \ {LeastStr(S)})

\* seq[:stop], stop an integer
SliceTo(seq, stop) ==
    SubSeq(seq, 1, IF stop >= 0 THEN Min(stop, Len(seq))
                               ELSE Max(Len(seq) + stop, 0))

\* max_files is <<>> for None and <<m>> for the integer m.
find_files(input_dir, max_files) ==
    LET files == Sorted({FilePath(input_dir, f) :
                            f \in {g \in tree : EndsWith(g.name, Hdf5)}})
    IN  IF max_files # <<>> THEN SliceTo(files, max_files[1]) ELSE files

---------------------------------------------------------------------------
(* numpy.array_split(ary, N) for an integer N >= 1.                        *)

\* A slip in section_sizes: one section fewer gets the extra file.
SectionSizeShort(L, N, i) == IF i < L % N THEN (L \div N) + 1 ELSE L \div N

\* section_sizes without its leading 0: extras sections of Neach_section+1,
\* then sections of Neach_section.
SectionSize(L, N, i) == IF i <= L % N THEN (L \div N) + 1 ELSE L \div N

\* div_points, the cumulative sum of section_sizes; DivPoint(L, N, 0) = 0.
RECURSIVE DivPoint(_, _, _)
DivPoint(L, N, i) ==
    IF i = 0 THEN 0 ELSE DivPoint(L, N, i - 1) + SectionSize(L, N, i)

\* ary[st:end]
SliceRange(seq, st, end) == SubSeq(seq, st + 1, end)

ArraySplit(ary, N) ==
    [i \in 1..N |-> SliceRange(ary, DivPoint(Len(ary), N, i - 1),
                                    DivPoint(Len(ary), N, i))]

---------------------------------------------------------------------------
(* multiprocessing.Pool.map(func, iterable): the batches it queues.        *)

\* chunksize, extra = divmod(len(iterable), len(pool) * 4), one more if
\* extra, and 0 for an empty iterable.
ChunkSize(L, W) ==
    IF L = 0 THEN 0
    ELSE (L \div (W * 4)) + (IF L % (W * 4) # 0 THEN 1 ELSE 0)

NumBatches(L, size) ==
    IF size <= 0 THEN 0 ELSE (L \div size) + (IF L % size # 0 THEN 1 ELSE 0)

\* A slip in the batching: every batch runs one file into the next.
BatchesOverlapping(files, size) ==
    [b \in 1..NumBatches(Len(files), size) |->
        SubSeq(files, (b - 1) * size + 1, Min(b * size + 1, Len(files)))]

Batches(files, size) ==
    [b \in 1..NumBatches(Len(files), size) |->
        SubSeq(files, (b - 1) * size + 1, Min(b * size, Len(files)))]

---------------------------------------------------------------------------
(* split_universe(x, size), a generator.                                   *)

GenNew == [pc |-> "start", n |-> 0, i |-> 0, j |-> 0, k |-> 0]

\* A slip in the count: n rounded up, so that the last block of an axis is
\* a partial one.
GenStartRoundedUp(E, size) ==
    LET n == FloorDiv(E + size - 1, size)
    IN  [pc |-> IF n > 0 THEN "yielded" ELSE "done",
         n |-> n, i |-> 0, j |-> 0, k |-> 0]

\* The first next(): n is computed, and the loops entered.
GenStart(E, size) ==
    LET n == FloorDiv(E, size)
    IN  [pc |-> IF n > 0 THEN "yielded" ELSE "done",
         n |-> n, i |-> 0, j |-> 0, k |-> 0]

\* A slip in the nesting: the loop over i innermost.
GenAdvanceOuterFastest(g) ==
    IF g.i + 1 < g.n THEN [g EXCEPT !.i = g.i + 1]
    ELSE IF g.j + 1 < g.n THEN [g EXCEPT !.j = g.j + 1, !.i = 0]
    ELSE IF g.k + 1 < g.n THEN [g EXCEPT !.k = g.k + 1, !.j = 0, !.i = 0]
    ELSE [g EXCEPT !.pc = "done"]

\* A later next(): the innermost loop that has an index left moves on.
GenAdvance(g) ==
    IF g.k + 1 < g.n THEN [g EXCEPT !.k = g.k + 1]
    ELSE IF g.j + 1 < g.n THEN [g EXCEPT !.j = g.j + 1, !.k = 0]
    ELSE IF g.i + 1 < g.n THEN [g EXCEPT !.i = g.i + 1, !.j = 0, !.k = 0]
    ELSE [g EXCEPT !.pc = "done"]

GenNext(g, E, size) == IF g.pc = "start" THEN GenStart(E, size) ELSE GenAdvance(g)

\* The cells start..stop-1 that x[start : stop] selects on an axis of E cells.
AxisSlice(E, start, stop) == [lo |-> Min(start, E), hi |-> Min(stop, E)]

\* x[istart : iend, jstart : jend, kstart : kend]
SubCube(g, E, size) ==
    [i |-> AxisSlice(E, g.i * size, (g.i + 1) * size),
     j |-> AxisSlice(E, g.j * size, (g.j + 1) * size),
     k |-> AxisSlice(E, g.k * size, (g.k + 1) * size)]

---------------------------------------------------------------------------
(* process_file: the name of the output file of sub-cube i.                *)

OutputFile(input_file, output_dir, i) ==
    PathJoin(output_dir,
             Replace(Basename(input_file), DotHdf5,
                     <<"_">> \o Fmt03i(i) \o DotTfrecord))

---------------------------------------------------------------------------
(* The state before main runs.                                             *)

Workers == 1..MaxWorkers

\* Everything but the command line and the file system.
Fresh ==
    /\ mainpc = "parse_args"
    /\ exit_code = -1
    /\ error = ""
    /\ dir_created = FALSE
    /\ found = <<>>
    /\ input_files = <<>>
    /\ taskq = <<>>
    /\ number_left = 0
    /\ map_success = TRUE
    /\ map_event = FALSE
    /\ map_value = ""
    /\ wpc = [w \in Workers |-> "none"]
    /\ wbatch = [w \in Workers |-> <<>>]
    /\ wpos = [w \in Workers |-> 0]
    /\ gen = [w \in Workers |-> GenNew]
    /\ widx = [w \in Workers |-> 0]
    /\ wres = [w \in Workers |-> ""]
    /\ calls = EmptyBag
    /\ written = {}
    /\ logged = FALSE

File(d, n) == [dir |-> d, name |-> n]

\* Spec: any command line, valid or not, over a small tree in which two
\* directories hold a file of the same name.
TreeFiles ==
    { File(<<"a">>, <<"x">> \o DotHdf5), File(<<"b">>, <<"x">> \o DotHdf5),
      File(<<"a">>, <<"y">> \o DotHdf5), File(<<>>, <<"x", ".", "t">>) }
SampleSizes == {-1, 0, 1}
TaskCounts == {0, 1, 2}
TaskIndexes == {-1, 0, 1, 2}
WorkerCounts == 0..MaxWorkers
FileCaps == {<<>>, <<-1>>, <<2>>}
Unreadable == {PathJoin(PathJoin(InputDir, <<"b">>), <<"x">> \o DotHdf5)}

Init ==
    /\ args \in [sample_size : SampleSizes, n_tasks : TaskCounts,
                 task : TaskIndexes, n_workers : WorkerCounts,
                 max_files : FileCaps, input_dir : {InputDir},
                 output_dir : {OutputDir}]
    /\ tree \in {t \in SUBSET TreeFiles : Cardinality(t) <= MaxFiles}
    /\ edge = 1
    /\ corrupt \in SUBSET Unreadable
    /\ Fresh

\* SpecSplit: one worker and one file, of any edge length and sample size.
InitSplit ==
    /\ args \in [sample_size : 1..MaxSampleSize, n_tasks : {1}, task : {0},
                 n_workers : {1}, max_files : {<<>>}, input_dir : {InputDir},
                 output_dir : {OutputDir}]
    /\ tree = {File(<<"a">>, <<"x">> \o DotHdf5)}
    /\ edge \in 0..MaxFileEdge
    /\ corrupt = {}
    /\ Fresh

\* SpecName: one worker and one file, of any name.
Tokens == {<<"x">>, <<"y">>, <<".">>, <<"t">>, Hdf5}

RECURSIVE Names(_)
Names(n) ==
    IF n = 0 THEN {<<>>} ELSE {t \o s : t \in Tokens, s \in Names(n - 1)}

FileNames == UNION {Names(n) : n \in 1..MaxTokens}

InitName ==
    /\ args \in [sample_size : 1..MaxNameEdge, n_tasks : {1}, task : {0},
                 n_workers : {1}, max_files : {<<>>}, input_dir : {InputDir},
                 output_dir : {OutputDir}]
    /\ tree \in {{File(<<"a">>, n)} : n \in FileNames}
    /\ edge \in 0..MaxNameEdge
    /\ corrupt = {}
    /\ Fresh

\* SpecTasks: one worker, any number of tasks, any list of files.
ListFiles == {File(<<>>, <<"x">> \o Decimal(i) \o DotHdf5) : i \in 1..MaxListLen}

InitTasks ==
    /\ \E T \in 1..MaxTasks :
          args \in [sample_size : {1}, n_tasks : {T}, task : 0..(T - 1),
                    n_workers : {1}, max_files : {<<>>},
                    input_dir : {InputDir}, output_dir : {OutputDir}]
    /\ tree \in SUBSET ListFiles
    /\ edge = 1
    /\ corrupt = {}
    /\ Fresh

---------------------------------------------------------------------------
(* main.                                                                   *)

UNCHANGED_env == UNCHANGED <<args, tree, edge, corrupt>>

UNCHANGED_workers == UNCHANGED <<wpc, wbatch, wpos, gen, widx, wres>>

UNCHANGED_map == UNCHANGED <<taskq, number_left, map_success, map_event, map_value>>

\* An exception nobody catches ends main: the interpreter exits with 1.
Raise(exc) ==
    /\ mainpc' = "exited"
    /\ exit_code' = 1
    /\ error' = exc

\* args = parse_args(): the options are integers; none of them is checked.
ParseArgs ==
    /\ mainpc = "parse_args"
    /\ mainpc' = "makedirs"
    /\ UNCHANGED <<exit_code, error, dir_created, found, input_files, calls,
                   written, logged>>
    /\ UNCHANGED_env /\ UNCHANGED_workers /\ UNCHANGED_map

\* os.makedirs(args.output_dir, exist_ok=True)
MakeDirs ==
    /\ mainpc = "makedirs"
    /\ dir_created' = TRUE
    /\ mainpc' = "find_files"
    /\ UNCHANGED <<exit_code, error, found, input_files, calls, written, logged>>
    /\ UNCHANGED_env /\ UNCHANGED_workers /\ UNCHANGED_map

\* input_files = find_files(args.input_dir, max_files=args.max_files)
FindFiles ==
    /\ mainpc = "find_files"
    /\ found' = find_files(args.input_dir, args.max_files)
    /\ mainpc' = "array_split"
    /\ UNCHANGED <<exit_code, error, dir_created, input_files, calls, written,
                   logged>>
    /\ UNCHANGED_env /\ UNCHANGED_workers /\ UNCHANGED_map

\* sub_arys[task] of a Python list of N arrays: a negative index counts
\* from the end, and an index outside -N..N-1 raises IndexError.
ListIndex(N, task) ==
    IF 0 <= task /\ task < N THEN task + 1
    ELSE IF 0 - N <= task /\ task < 0 THEN N + task + 1
    ELSE 0

\* input_files = np.array_split(input_files, args.n_tasks)[args.task]
SelectTask ==
    /\ mainpc = "array_split"
    /\ IF args.n_tasks <= 0
       THEN Raise("ValueError") /\ UNCHANGED input_files
       ELSE IF ListIndex(args.n_tasks, args.task) = 0
       THEN Raise("IndexError") /\ UNCHANGED input_files
       ELSE /\ input_files' =
                 ArraySplit(found, args.n_tasks)[ListIndex(args.n_tasks, args.task)]
            /\ mainpc' = "pool"
            /\ UNCHANGED <<exit_code, error>>
    /\ UNCHANGED <<dir_created, found, calls, written, logged>>
    /\ UNCHANGED_env /\ UNCHANGED_workers /\ UNCHANGED_map

\* with mp.Pool(processes=args.n_workers) as pool: the worker processes
\* start, each waiting for a batch.
CreatePool ==
    /\ mainpc = "pool"
    /\ IF args.n_workers < 1
       THEN Raise("ValueError") /\ UNCHANGED wpc
       ELSE /\ wpc' = [w \in Workers |->
                          IF w <= args.n_workers THEN "idle" ELSE "none"]
            /\ mainpc' = "map"
            /\ UNCHANGED <<exit_code, error>>
    /\ UNCHANGED <<dir_created, found, input_files, calls, written, logged>>
    /\ UNCHANGED <<wbatch, wpos, gen, widx, wres>>
    /\ UNCHANGED_env /\ UNCHANGED_map

\* pool.map(process_func, input_files), up to its wait for the result: the
\* batches are queued, and the result of an empty list is ready at once.
MapDispatch ==
    /\ mainpc = "map"
    /\ LET size == ChunkSize(Len(input_files), args.n_workers)
           batches == Batches(input_files, size)
       IN  /\ taskq' = batches
           /\ number_left' = Len(batches)
           /\ map_event' = (size <= 0)
    /\ mainpc' = "wait"
    /\ UNCHANGED <<map_success, map_value>>
    /\ UNCHANGED <<exit_code, error, dir_created, found, input_files, calls,
                   written, logged>>
    /\ UNCHANGED_env /\ UNCHANGED_workers

\* pool.map returns or raises once the result is ready, and leaving the
\* with block terminates the workers.
MapReturn ==
    /\ mainpc = "wait"
    /\ map_event
    /\ wpc' = [w \in Workers |-> IF wpc[w] = "none" THEN "none" ELSE "terminated"]
    /\ IF map_success
       THEN mainpc' = "log" /\ UNCHANGED <<exit_code, error>>
       ELSE Raise(map_value)
    /\ UNCHANGED <<dir_created, found, input_files, calls, written, logged>>
    /\ UNCHANGED <<wbatch, wpos, gen, widx, wres>>
    /\ UNCHANGED_env /\ UNCHANGED_map

\* logging.info('All done!'), and main returns.
LogDone ==
    /\ mainpc = "log"
    /\ logged' = TRUE
    /\ exit_code' = 0
    /\ mainpc' = "exited"
    /\ UNCHANGED <<error, dir_created, found, input_files, calls, written>>
    /\ UNCHANGED_env /\ UNCHANGED_workers /\ UNCHANGED_map

---------------------------------------------------------------------------
(* A worker process of the pool.                                           *)

UNCHANGED_main ==
    UNCHANGED <<mainpc, exit_code, error, dir_created, found, input_files, logged>>

\* The worker takes the next batch from the queue.
GetTask(w) ==
    /\ wpc[w] = "idle"
    /\ taskq # <<>>
    /\ wbatch' = [wbatch EXCEPT ![w] = Head(taskq)]
    /\ taskq' = Tail(taskq)
    /\ wpos' = [wpos EXCEPT ![w] = 1]
    /\ wpc' = [wpc EXCEPT ![w] = "call"]
    /\ UNCHANGED <<gen, widx, wres, number_left, map_success, map_event,
                   map_value, calls, written>>
    /\ UNCHANGED_env /\ UNCHANGED_main

\* An exception in process_file ends the batch: mapstar's list(map(...))
\* raises, and the worker hands the exception back as the batch's result.
Fail(w, exc) ==
    /\ wres' = [wres EXCEPT ![w] = exc]
    /\ wpc' = [wpc EXCEPT ![w] = "result"]

\* process_file returns: mapstar goes on to the next file of the batch, or
\* the batch is done.
Return(w) ==
    IF wpos[w] < Len(wbatch[w])
    THEN /\ wpos' = [wpos EXCEPT ![w] = wpos[w] + 1]
         /\ wpc' = [wpc EXCEPT ![w] = "call"]
         /\ UNCHANGED wres
    ELSE /\ wres' = [wres EXCEPT ![w] = ""]
         /\ wpc' = [wpc EXCEPT ![w] = "result"]
         /\ UNCHANGED wpos

Invocation(input_file) ==
    [input_file |-> input_file, output_dir |-> args.output_dir,
     sample_size |-> args.sample_size]

\* process_func(input_file) up to the loop: x, y = read_hdf5(input_file)
Call(w) ==
    /\ wpc[w] = "call"
    /\ calls' = calls (+) SetToBag({Invocation(wbatch[w][wpos[w]])})
    /\ IF wbatch[w][wpos[w]] \in corrupt
       THEN Fail(w, "ReadError") /\ UNCHANGED <<gen, widx>>
       ELSE /\ gen' = [gen EXCEPT ![w] = GenNew]
            /\ widx' = [widx EXCEPT ![w] = 0]
            /\ wpc' = [wpc EXCEPT ![w] = "loop"]
            /\ UNCHANGED wres
    /\ UNCHANGED <<wbatch, wpos, taskq, number_left, map_success, map_event,
                   map_value, written>>
    /\ UNCHANGED_env /\ UNCHANGED_main

Record(w, g) ==
    [input_file |-> wbatch[w][wpos[w]],
     idx |-> widx[w],
     block |-> <<g.i, g.j, g.k>>,
     cells |-> SubCube(g, edge, args.sample_size),
     output_file |-> OutputFile(wbatch[w][wpos[w]], args.output_dir, widx[w])]

\* One turn of "for i, xi in enumerate(split_universe(x, sample_size))":
\* the generator is resumed; its sub-cube is written, or it is exhausted
\* and process_file returns. A sample size of 0 raises in the generator's
\* first step.
Iterate(w) ==
    /\ wpc[w] = "loop"
    /\ IF gen[w].pc = "start" /\ args.sample_size = 0
       THEN Fail(w, "ZeroDivisionError") /\ UNCHANGED <<gen, widx, wpos, written>>
       ELSE LET g == GenNext(gen[w], edge, args.sample_size)
            IN  /\ gen' = [gen EXCEPT ![w] = g]
                /\ IF g.pc = "done"
                   THEN Return(w) /\ UNCHANGED <<widx, written>>
                   ELSE /\ written' = written \cup {Record(w, g)}
                        /\ widx' = [widx EXCEPT ![w] = widx[w] + 1]
                        /\ UNCHANGED <<wpc, wpos, wres>>
    /\ UNCHANGED <<wbatch, taskq, number_left, map_success, map_event,
                   map_value, calls>>
    /\ UNCHANGED_env /\ UNCHANGED_main

\* The same turn when write_record raises (a full disk, a permission).
IterateWriteError(w) ==
    /\ wpc[w] = "loop"
    /\ ~(gen[w].pc = "start" /\ args.sample_size = 0)
    /\ LET g == GenNext(gen[w], edge, args.sample_size)
       IN  /\ g.pc # "done"
           /\ gen' = [gen EXCEPT ![w] = g]
    /\ Fail(w, "WriteError")
    /\ UNCHANGED <<wbatch, wpos, widx, taskq, number_left, map_success,
                   map_event, map_value, calls, written>>
    /\ UNCHANGED_env /\ UNCHANGED_main

\* MapResult._set as it would be if a failed batch made the result ready at
\* once.
SetResultEager(w) ==
    /\ wpc[w] = "result"
    /\ number_left' = number_left - 1
    /\ IF wres[w] = "" /\ map_success
       THEN /\ map_event' = (number_left - 1 = 0)
            /\ UNCHANGED <<map_success, map_value>>
       ELSE /\ IF wres[w] # "" /\ map_success
               THEN map_success' = FALSE /\ map_value' = wres[w]
               ELSE UNCHANGED <<map_success, map_value>>
            /\ map_event' = TRUE
    /\ wpc' = [wpc EXCEPT ![w] = "idle"]
    /\ UNCHANGED <<wbatch, wpos, gen, widx, wres, taskq, calls, written>>
    /\ UNCHANGED <<args, tree, edge, corrupt>>
    /\ UNCHANGED <<mainpc, exit_code, error, dir_created, found, input_files, logged>>

\* MapResult._set(i, (success, result)) for the batch the worker hands
\* back; the worker waits for its next batch.
SetResult(w) ==
    /\ wpc[w] = "result"
    /\ number_left' = number_left - 1
    /\ IF wres[w] = "" /\ map_success
       THEN /\ map_event' = (number_left - 1 = 0)
            /\ UNCHANGED <<map_success, map_value>>
       ELSE /\ IF wres[w] # "" /\ map_success
               THEN map_success' = FALSE /\ map_value' = wres[w]
               ELSE UNCHANGED <<map_success, map_value>>
            /\ map_event' = (number_left - 1 = 0)
    /\ wpc' = [wpc EXCEPT ![w] = "idle"]
    /\ UNCHANGED <<wbatch, wpos, gen, widx, wres, taskq, calls, written>>
    /\ UNCHANGED_env /\ UNCHANGED_main

Next ==
    \/ ParseArgs
    \/ MakeDirs
    \/ FindFiles
    \/ SelectTask
    \/ CreatePool
    \/ MapDispatch
    \/ MapReturn
    \/ LogDone
    \/ \E w \in Workers : GetTask(w)
    \/ \E w \in Workers : Call(w)
    \/ \E w \in Workers : Iterate(w)
    \/ \E w \in Workers : IterateWriteError(w)
    \/ \E w \in Workers : SetResult(w)

Spec == Init /\ [][Next]_vars

SpecSplit == InitSplit /\ [][Next]_vars

SpecName == InitName /\ [][Next]_vars

SpecTasks == InitTasks /\ [][Next]_vars

---------------------------------------------------------------------------
(* Properties.                                                             *)

Range(seq) == {seq[n] : n \in 1..Len(seq)}

RECURSIVE Concat(_, _)
Concat(chunks, n) == IF n = 0 THEN <<>> ELSE Concat(chunks, n - 1) \o chunks[n]

Shape(c) == <<c.i.hi - c.i.lo, c.j.hi - c.j.lo, c.k.hi - c.k.lo>>

\* The cell <<a, b, c>> of the volume lies in the sub-cube.
Holds(c, cell) ==
    /\ c.i.lo <= cell[1] /\ cell[1] < c.i.hi
    /\ c.j.lo <= cell[2] /\ cell[2] < c.j.hi
    /\ c.k.lo <= cell[3] /\ cell[3] < c.k.hi

\* Two ranges of cells, and two sub-cubes, have a cell in common.
Meet(a, b) == Max(a.lo, b.lo) < Min(a.hi, b.hi)

Overlap(c, d) == Meet(c.i, d.i) /\ Meet(c.j, d.j) /\ Meet(c.k, d.k)

Cells(m) == (0..(m - 1)) \X (0..(m - 1)) \X (0..(m - 1))

\* main has returned, every file of its chunk processed.
Finished == mainpc = "exited" /\ exit_code = 0 /\ logged

\* What the options are meant to be: a positive sample size, at least one
\* task and one worker, a task index in [0, n_tasks), no negative cap.
ArgsValid ==
    /\ args.sample_size >= 1
    /\ args.n_tasks >= 1
    /\ 0 <= args.task /\ args.task < args.n_tasks
    /\ args.n_workers >= 1
    /\ args.max_files = <<>> \/ args.max_files[1] >= 0

\* C1: with a positive sample size S and n = floor(E/S), every sub-cube
\* written has the shape (S,S,S) and lies in [0, n*S)^3, no two of them share
\* a cell, there are never more than n^3 of them, no error other than a
\* failed write ends the run, and once the file is processed there are
\* exactly n^3 and every cell of [0, n*S)^3 lies in exactly one of them.
C1_Partition ==
    LET S == args.sample_size
        n == edge \div S
    IN  /\ \A r \in written :
              /\ Shape(r.cells) = <<S, S, S>>
              /\ r.cells.i.hi <= n * S /\ r.cells.j.hi <= n * S
              /\ r.cells.k.hi <= n * S
        /\ \A r1, r2 \in written : r1 # r2 => ~Overlap(r1.cells, r2.cells)
        /\ Cardinality(written) <= n * n * n
        /\ error \in {"", "WriteError"}
        /\ Finished /\ input_files # <<>> =>
              /\ Cardinality(written) = n * n * n
              /\ \A cell \in Cells(n * S) :
                    Cardinality({r \in written : Holds(r.cells, cell)}) = 1

\* A volume of edge 5 cut with sample size 2: 8 sub-cubes, and the cells
\* with a coordinate 4 left out.
C1_Witness ==
    /\ Finished /\ edge = 5 /\ args.sample_size = 2
    /\ Cardinality(written) = 8

\* C2: the sub-cube with block index (i, j, k) is written with
\* idx = i*n^2 + j*n + k, the indices written for a file are 0, 1, 2, ...
\* with no gap, and for E = 2S the blocks come in the order (0,0,0), (0,0,1),
\* (0,1,0), (0,1,1), (1,0,0), (1,0,1), (1,1,0), (1,1,1).
C2_Order ==
    LET S == args.sample_size
        n == edge \div S
        of(f) == {r \in written : r.input_file = f}
    IN  /\ \A r \in written :
              r.idx = r.block[1] * n * n + r.block[2] * n + r.block[3]
        /\ \A r \in written :
              {q.idx : q \in of(r.input_file)} =
                  0..(Cardinality(of(r.input_file)) - 1)
        /\ Finished /\ input_files # <<>> /\ edge = 2 * S =>
              \A r \in written :
                  r.block = << <<0, 0, 0>>, <<0, 0, 1>>, <<0, 1, 0>>, <<0, 1, 1>>,
                               <<1, 0, 0>>, <<1, 0, 1>>, <<1, 1, 0>>,
                               <<1, 1, 1>> >>[r.idx + 1]

\* The sixth sub-cube of a volume of edge 4 cut with sample size 2 is the
\* block (1, 0, 1).
C2_Witness ==
    /\ Finished /\ edge = 4 /\ args.sample_size = 2
    /\ \E r \in written : r.idx = 5 /\ r.block = <<1, 0, 1>>

\* C3: the chunks of tasks 0..T-1 of the sorted file list are contiguous and
\* disjoint, every file lies in exactly one, their concatenation in task
\* order is the list, each has floor(L/T) or ceil(L/T) files, and the chunk
\* main goes on with is the one of its task.
C3_Chunks ==
    LET T == args.n_tasks
        L == Len(found)
        chunks == ArraySplit(found, T)
        ceil == (L \div T) + (IF L % T = 0 THEN 0 ELSE 1)
    IN  /\ \A n \in 1..(L - 1) : StrLess(found[n], found[n + 1])
        /\ Concat(chunks, T) = found
        /\ \A t \in 1..T : Len(chunks[t]) \in {L \div T, ceil}
        /\ \A t \in 1..T : \E st \in 0..L :
              chunks[t] = SubSeq(found, st + 1, st + Len(chunks[t]))
        /\ \A f \in Range(found) :
              Cardinality({t \in 1..T : f \in Range(chunks[t])}) = 1
        /\ mainpc \notin {"parse_args", "makedirs", "find_files", "array_split"}
              => input_files = chunks[args.task + 1]

\* Five files and three tasks: task 1 takes the third and fourth.
C3_Witness ==
    /\ mainpc = "pool" /\ Len(found) = 5 /\ args.n_tasks = 3 /\ args.task = 1
    /\ input_files = SubSeq(found, 3, 4)

\* C4: two sub-cubes of one source file with different indices are written
\* to different output files.
C4_NoCollisionInFile ==
    \A r1, r2 \in written :
        r1.input_file = r2.input_file /\ r1.idx # r2.idx
            => r1.output_file # r2.output_file

\* C5: in a run with valid options, sub-cubes of two different source files
\* are never written to the same output file, whatever the interleaving of
\* the workers.
C5_NoCollisionAcrossFiles ==
    ArgsValid =>
        \A r1, r2 \in written :
            r1.input_file # r2.input_file => r1.output_file # r2.output_file

\* os.path.splitext(name)[0]: the name up to its last dot, a leading dot
\* not counting.
RECURSIVE LastDot(_, _)
LastDot(s, n) ==
    IF n <= 1 THEN 0 ELSE IF s[n] = "." THEN n ELSE LastDot(s, n - 1)

Stem(name) ==
    IF LastDot(name, Len(name)) = 0 THEN name
    ELSE SubSeq(name, 1, LastDot(name, Len(name)) - 1)

\* C6: every output file lies directly in the output directory and is named
\* <source basename without its extension>_<idx, at least 3 digits>.tfrecord;
\* a volume of edge 2S gives the 8 files <name>_000 to <name>_007.
C6_OutputName ==
    /\ \A r \in written :
          r.output_file =
              args.output_dir \o <<"/">> \o Stem(Basename(r.input_file))
                  \o <<"_">> \o Fmt03i(r.idx) \o DotTfrecord
    /\ Finished /\ input_files # <<>> /\ edge = 2 * args.sample_size =>
          {r.output_file : r \in written} =
              {args.output_dir \o <<"/">> \o Stem(Basename(input_files[1]))
                   \o <<"_", "0", "0", Digit(d)>> \o DotTfrecord : d \in 0..7}

\* C7: process_file is invoked at most once for a file, only for files of
\* this task's chunk and only with the output directory and the sample size
\* of the command line; when main returns without a failure it has been
\* invoked exactly once for every file of the chunk.
C7_OncePerFile ==
    /\ \A c \in BagToSet(calls) :
          /\ CopiesIn(c, calls) = 1
          /\ c.input_file \in Range(input_files)
          /\ c.output_dir = args.output_dir
          /\ c.sample_size = args.sample_size
    /\ Finished =>
          BagToSet(calls) = {Invocation(f) : f \in Range(input_files)}

\* Two workers have processed the three files of the chunk.
C7_Witness ==
    /\ Finished /\ args.n_workers = 2 /\ Len(input_files) = 3
    /\ BagCardinality(calls) = 3

\* A process_file invocation has failed.
Failed == ~map_success

\* C8: main exits non-zero without the completion message when an invocation
\* failed or the options are invalid, and exits zero with the message
\* otherwise; the message is logged only after every sub-cube of every file
\* of the chunk is written.
C8_ExitStatus ==
    /\ mainpc = "exited" =>
          IF Failed \/ ~ArgsValid
          THEN exit_code # 0 /\ ~logged
          ELSE exit_code = 0 /\ logged
    /\ logged =>
          \A f \in Range(input_files) :
              LET n == FloorDiv(edge, args.sample_size)
              IN  n > 0 => Cardinality({r \in written : r.input_file = f})
                               = n * n * n

C10_FatalAtStartup ==
    ~ArgsValid =>
        /\ ~dir_created
        /\ calls = EmptyBag
        /\ written = {}
        /\ mainpc = "exited" => exit_code # 0

===========================================================================
